---- MODULE Spec2Model ----
(***************************************************************************)
(* Model of the OS simulator (Sim03): the meta-data loader, the two        *)
(* scheduling disciplines of Simulator::run, the operation executor        *)
(* Simulator::process_operation with its per-operation I/O thread, and the *)
(* event log written by Simulator::print.                                  *)
(*                                                                         *)
(* Program records carry one field the C++ class does not have, adm: the   *)
(* position at which the program was admitted to programs_.  It is a tag   *)
(* used only to state properties; no guard and no comparison reads it.     *)
(* The variables consumed, dispatched and stateTrace are history variables *)
(* of the same kind.  Two variables describe time: steady is the time that *)
(* has really passed (what sleep_for counts), system_clock is the reading  *)
(* of std::chrono::system_clock, which the host may set back.  stamps      *)
(* holds, for every line of log, the elapsed time print wrote on it and    *)
(* the steady time at which it was written.                                *)
(*                                                                         *)
(* Sim01's main is an entry of its own (pc = "main"); the Sim03 simulator  *)
(* is entered at its constructor (pc = "load_config").                     *)
(***************************************************************************)
EXTENDS Integers, Sequences, FiniteSets, TLC

(* ---- bounds of the model ---- *)
MaxProgs == 3        \* programs in the meta-data file
MaxOps == 3          \* P/I/O operations in the whole meta-data file
MaxTokens == 8       \* tokens in the whole meta-data file, A(start)0 and A(end)0 included
MaxClockTokens == 4  \* the same, in the runs where the clock oversleeps and is set back
MaxArgc == 3         \* argc handed to main

(* ---- the cycle times load_config reads from the configuration file ---- *)
processorCycleTime_ == 10
monitorDisplayTime_ == 20
hardDriveCycleTime_ == 5
printerCycleTime_ == 25
keyboardCycleTime_ == 50

SchedulingCodes == {"FIFO", "SJF", "SRTF-N"}

VARIABLES
  pc,              \* position of the driving control flow
  schedulingCode_, \* Simulator::schedulingCode_
  operation,       \* the Operation variable load_meta_data reuses for every token
  newProgram,      \* the Program load_meta_data is filling
  inProgram,       \* TRUE between a program's A(start) and its A(end)
  programs_,       \* Simulator::programs_
  it,              \* position of the range-for over programs_
  program,         \* the by-value Program the scheduler works on
  programCounter,  \* run()'s programCounter
  SRTF_queue_,     \* Simulator::SRTF_queue_, as the heap array of the priority queue
  po_operation,    \* process_operation's local operation
  programID,       \* process_operation's local programID
  IO_thread,       \* state of the I/O thread: none, start, sleep, end, finished
  log,             \* the lines written by print, in order
  consumed,        \* history: every operation returned by Program::next, in order
  dispatched,      \* history: adm of the programs in order of id assignment
  stateTrace,      \* history: every assignment to a Program's state
  argc,            \* main's argc; 0 when the simulator is entered at its constructor
  config,          \* what the configuration file holds
  metaData,        \* what surrounds the programs in the meta-data file
  realClock,       \* TRUE: sleeps may overrun and system_clock may be set back
  steady,          \* the time that has passed
  system_clock,    \* the reading of std::chrono::system_clock::now()
  start_,          \* Simulator::start_
  stamps           \* for each line of log: the elapsed time printed, the steady time

vars == <<pc, schedulingCode_, operation, newProgram, inProgram, programs_, it,
          program, programCounter, SRTF_queue_, po_operation, programID,
          IO_thread, log, consumed, dispatched, stateTrace,
          argc, config, metaData, realClock, steady, system_clock, start_, stamps>>

(* ---- Operation and Program ---- *)
Op(t, d, c) == [type |-> t, description |-> d, cycles |-> c, cycleTime |-> 0, duration |-> 0]

\* load_meta_data's operation before the first token is parsed; its cycleTime
\* is not read before A(start)0 has set it to 0
NoOperation == Op("-", "", 0)

DefaultProgram ==
  [operations |-> <<>>, state |-> "START", running_time |-> 0, id |-> 0, adm |-> 0]

(* Tokens the meta-data file may hold between A(start)0 and A(end)0:     *)
(* processing, input and output on devices of the configuration, input   *)
(* from a device the configuration does not have, and a token of a type  *)
(* the simulator does not know.                                          *)
InnerTokens ==
  {Op("P", "run", 3), Op("I", "hard drive", 2), Op("O", "monitor", 1),
   Op("I", "mouse", 1), Op("X", "run", 1)}

StartToken == Op("A", "start", 0)
EndToken == Op("A", "end", 0)

(* ---- Program (Program.h / Program.cpp) ---- *)

\* duration of an operation: cycles * cycleTime
Duration(o) == o.cycles * o.cycleTime

\* Program::add_operation
add_operation(prog, o) ==
  LET timed == [o EXCEPT !.duration = Duration(o)]
  IN  [prog EXCEPT !.operations = Append(@, timed),
                   !.running_time = @ + timed.duration]

\* Program::done
done(prog) == prog.operations = <<>>

\* Program::remaining_operations
remaining_operations(prog) == Len(prog.operations)

\* Program::next: the front operation, and the program without it
next_operation(prog) == Head(prog.operations)
after_next(prog) == [prog EXCEPT !.operations = Tail(@)]

\* (mutant) the comparison turned round: the queue becomes a max-heap
ProgramGreater_Less(a, b) == a.running_time < b.running_time

\* Program::operator> : the ordering std::greater<Program> gives the queue
ProgramGreater(a, b) == a.running_time > b.running_time

(* ---- Simulator::set_operation_cycle_time ---- *)

\* the final else: the operation type is none of P, I, O, A, S
UnrecognizedType(o) == o.type \notin {"P", "I", "O", "A", "S"}

\* the cycle time the function leaves in the operation; an I/O operation
\* whose description matches no device keeps the value it came in with
set_operation_cycle_time(o) ==
  IF o.type = "P" THEN [o EXCEPT !.cycleTime = processorCycleTime_]
  ELSE IF o.type \in {"I", "O"} THEN
         IF o.description = "hard drive" THEN [o EXCEPT !.cycleTime = hardDriveCycleTime_]
         ELSE IF o.description = "keyboard" THEN [o EXCEPT !.cycleTime = keyboardCycleTime_]
         ELSE IF o.description = "monitor" THEN [o EXCEPT !.cycleTime = monitorDisplayTime_]
         ELSE IF o.description = "printer" THEN [o EXCEPT !.cycleTime = printerCycleTime_]
         ELSE o
  ELSE IF o.type \in {"A", "S"} THEN [o EXCEPT !.cycleTime = 0]
  ELSE o

(* ---- Simulator::load_meta_data ---- *)

\* parsing one token into the reused operation variable: type, description
\* and cycles are overwritten, cycleTime is whatever the last token left
ParseInto(o, tok) ==
  [o EXCEPT !.type = tok.type, !.description = tok.description, !.cycles = tok.cycles]

RECURSIVE InnerOpsOf(_)
InnerOpsOf(progs) ==
  IF progs = <<>> THEN 0
  ELSE (Len(Head(progs).operations) - 2) + InnerOpsOf(Tail(progs))

\* P/I/O operations read so far
LoadedOps ==
  InnerOpsOf(programs_) + (IF inProgram THEN Len(newProgram.operations) - 1 ELSE 0)

\* tokens read so far
LoadedTokens ==
  LoadedOps + 2 * Len(programs_) + (IF inProgram THEN 1 ELSE 0)

RunUnchanged ==
  UNCHANGED <<it, program, programCounter, SRTF_queue_, po_operation, programID,
              IO_thread, log, consumed, dispatched, stateTrace,
              argc, config, metaData, realClock, steady, system_clock, start_, stamps>>

\* the files main and the constructor may be given
ConfigFiles ==
  [readable : BOOLEAN, header : BOOLEAN, version : BOOLEAN,
   schedulingCode : SchedulingCodes \cup {"RR"}, endLine : BOOLEAN]

MetaDataFiles ==
  [readable : BOOLEAN, preamble : BOOLEAN, endFlag : BOOLEAN, lastLine : BOOLEAN]

(* ---- main (Sim01) ---- *)

\* if( argc != 1 ): the error message and EXIT_FAILURE; otherwise
\* Simulator simulator( argv[1] ) with argv[1] the null pointer that ends
\* argv: the std::string built from it is undefined, the build throws
\* std::logic_error or faults, or goes on with a path that names no file
Main ==
  /\ pc = "main"
  /\ IF argc # 1
       THEN pc' = "usage_error"
       ELSE pc' \in {"aborted", "load_config"}
  /\ UNCHANGED <<schedulingCode_, operation, newProgram, inProgram, programs_>>
  /\ RunUnchanged

(* ---- Simulator::load_config ---- *)

\* (mutant) the scheduling code is not checked
RecognizedSchedulingCode_Any(c) == TRUE

\* the scheduling code is one of FIFO, SJF, SRTF-N
RecognizedSchedulingCode(c) == c \in SchedulingCodes

\* the checks of load_config in their order: the file opens, its first line,
\* the version, the scheduling code, the line End; each failure throws and
\* the constructor rethrows.  schedulingCode_ is assigned before it is checked.
LoadConfig ==
  /\ pc = "load_config"
  /\ schedulingCode_' = IF config.readable /\ config.header /\ config.version
                          THEN config.schedulingCode ELSE schedulingCode_
  /\ pc' = IF /\ config.readable
              /\ config.header
              /\ config.version
              /\ RecognizedSchedulingCode(config.schedulingCode)
              /\ config.endLine
             THEN "open_meta_data" ELSE "aborted"
  /\ UNCHANGED <<operation, newProgram, inProgram, programs_>>
  /\ RunUnchanged

(* ---- Simulator::load_meta_data ---- *)

\* the file opens and its first line is the preamble, otherwise it throws
OpenMetaData ==
  /\ pc = "open_meta_data"
  /\ pc' = IF metaData.readable /\ metaData.preamble THEN "load_meta_data" ELSE "aborted"
  /\ UNCHANGED <<schedulingCode_, operation, newProgram, inProgram, programs_>>
  /\ RunUnchanged

\* tokens the meta-data file may hold
TokenBudget == IF realClock THEN MaxClockTokens ELSE MaxTokens

\* while( fin.peek() != 'S' ): a new Program, and its first token A(start)0
LoadStartToken ==
  /\ pc = "load_meta_data"
  /\ ~inProgram
  /\ Len(programs_) < MaxProgs
  /\ LoadedTokens + 2 <= TokenBudget
  /\ LET parsed == set_operation_cycle_time(ParseInto(operation, StartToken))
     IN  /\ operation' = parsed
         /\ newProgram' = add_operation(DefaultProgram, parsed)
  /\ inProgram' = TRUE
  /\ UNCHANGED <<pc, schedulingCode_, programs_>>
  /\ RunUnchanged

\* one token of the do-while that is not A(end)0
LoadInnerToken ==
  /\ pc = "load_meta_data"
  /\ inProgram
  /\ LoadedOps < MaxOps
  /\ LoadedTokens + 2 <= TokenBudget
  /\ \E tok \in InnerTokens :
       LET parsed == ParseInto(operation, tok)
       IN  IF UnrecognizedType(parsed)
             THEN /\ operation' = parsed
                  /\ pc' = "aborted"
                  /\ UNCHANGED newProgram
             ELSE /\ operation' = set_operation_cycle_time(parsed)
                  /\ newProgram' = add_operation(newProgram, set_operation_cycle_time(parsed))
                  /\ UNCHANGED pc
  /\ UNCHANGED <<schedulingCode_, inProgram, programs_>>
  /\ RunUnchanged

\* the token A(end)0: it ends the do-while and the program is pushed back
LoadEndToken ==
  /\ pc = "load_meta_data"
  /\ inProgram
  /\ LET parsed == set_operation_cycle_time(ParseInto(operation, EndToken))
         complete == add_operation(newProgram, parsed)
     IN  /\ operation' = parsed
         /\ newProgram' = complete
         /\ programs_' = Append(programs_, [complete EXCEPT !.adm = Len(programs_) + 1])
  /\ inProgram' = FALSE
  /\ UNCHANGED <<pc, schedulingCode_>>
  /\ RunUnchanged

\* fin.peek() == 'S': the flag must be S(end)0 and the last line the closing
\* line, otherwise it throws; then the constructor returns
LoadFinish ==
  /\ pc = "load_meta_data"
  /\ ~inProgram
  /\ pc' = IF metaData.endFlag /\ metaData.lastLine THEN "run" ELSE "aborted"
  /\ UNCHANGED <<schedulingCode_, operation, newProgram, inProgram, programs_>>
  /\ RunUnchanged

(* ---- SRTF_queue_: std::priority_queue<Program, vector, greater> ---- *)
(* The heap array is a sequence; the operators below use the 0-based      *)
(* positions of std::push_heap and std::pop_heap, element k being h[k+1]. *)

\* std::__push_heap: move value up from holeIndex while its parent is greater
RECURSIVE PushHeap(_, _, _, _)
PushHeap(h, holeIndex, topIndex, value) ==
  LET parent == (holeIndex - 1) \div 2
  IN  IF holeIndex > topIndex /\ ProgramGreater(h[parent + 1], value)
        THEN PushHeap([h EXCEPT ![holeIndex + 1] = h[parent + 1]], parent, topIndex, value)
        ELSE [h EXCEPT ![holeIndex + 1] = value]

\* std::__adjust_heap, the loop: move the hole down to a leaf, each time
\* taking the right child unless the right child is greater than the left
RECURSIVE SiftHole(_, _, _)
SiftHole(h, secondChild, len) ==
  IF secondChild < (len - 1) \div 2
    THEN LET right == 2 * (secondChild + 1)
             child == IF ProgramGreater(h[right + 1], h[right]) THEN right - 1 ELSE right
         IN  SiftHole([h EXCEPT ![secondChild + 1] = h[child + 1]], child, len)
    ELSE <<h, secondChild>>

\* std::__adjust_heap: the loop, the lone left child of an even length, then
\* __push_heap of the value from where the hole ended
AdjustHeap(h, len, value) ==
  LET sifted == SiftHole(h, 0, len)
      h1 == sifted[1]
      hole == sifted[2]
  IN  IF len % 2 = 0 /\ hole = (len - 2) \div 2
        THEN LET left == 2 * (hole + 1) - 1
             IN  PushHeap([h1 EXCEPT ![hole + 1] = h1[left + 1]], left, 0, value)
        ELSE PushHeap(h1, hole, 0, value)

\* priority_queue::push: push_back, then push_heap
QueuePush(h, prog) == PushHeap(Append(h, prog), Len(h), 0, prog)

\* priority_queue::top
QueueTop(h) == h[1]

\* (mutant) pop_back without pop_heap: the last element leaves, the top stays
QueuePop_PopBackOnly(h) == SubSeq(h, 1, Len(h) - 1)

\* priority_queue::pop: pop_heap, then pop_back
QueuePop(h) ==
  IF Len(h) > 1
    THEN SubSeq(AdjustHeap([h EXCEPT ![Len(h)] = h[1]], Len(h) - 1, h[Len(h)]), 1, Len(h) - 1)
    ELSE <<>>

(* ---- Simulator::print ---- *)

\* one log line: the message text and the process id it names (0: none)
Line(m, id) == [msg |-> m, id |-> id]

print(l, m, id) == Append(l, Line(m, id))

(* ---- Simulator::process_IO wording ---- *)

StartMessage(o) ==
  IF o.description = "hard drive"
    THEN (IF o.type = "I" THEN "Process: start hard drive input"
                          ELSE "Process: start hard drive output")
  ELSE IF o.description = "keyboard" THEN "Process: start keyboard input"
  ELSE IF o.description = "monitor" THEN "Process: start monitor output"
  ELSE "Process: start printer output"

EndMessage(o) ==
  IF o.description = "hard drive"
    THEN (IF o.type = "I" THEN "Process: end hard drive input"
                          ELSE "Process: end hard drive output")
  ELSE IF o.description = "keyboard" THEN "Process: end keyboard input"
  ELSE IF o.description = "monitor" THEN "Process: end monitor output"
  ELSE "Process: end printer output"

\* process_IO has a branch for the description
HasIOBranch(o) == o.description \in {"hard drive", "keyboard", "monitor", "printer"}

(* ---- helpers of Simulator::run and process_operation ---- *)

\* program.state = s, recorded in stateTrace
Transition(prog, s) == [adm |-> prog.adm, from |-> prog.state, to |-> s]

\* (mutant) the range-for walks programs_ from its end
FifoElement_Reversed(progs, i) == progs[Len(progs) + 1 - i]

\* the element the range-for over programs_ copies at position i
FifoElement(progs, i) == progs[i]

\* (mutant) the loop variable is a reference: Program &program
LoopVariableWritten_ByReference(progs, i, prog) == [progs EXCEPT ![i] = prog]

\* for( Program program : programs_ ): the loop variable is a copy, and
\* programs_ after the body has written prog to it is programs_ as it was
LoopVariableWritten(progs, i, prog) == progs

\* what run() leaves alone besides programs_
ConstructedUnchanged ==
  UNCHANGED <<schedulingCode_, operation, newProgram, inProgram,
              argc, config, metaData, realClock>>

\* (mutant) the test left out: every dispatch counts as the first
FirstDispatch_Always(prog) == TRUE

\* if( program.id == 0 ): the program has not run before
FirstDispatch(prog) == prog.id = 0

\* (mutant) the end check off by one: it fires with two operations left
OnlyEndRemains_Two(prog) == remaining_operations(prog) = 2

\* (mutant) the end check left out: the last next() is always made
OnlyEndRemains_Always(prog) == TRUE

\* if( program.remaining_operations() == 1 )
OnlyEndRemains(prog) == remaining_operations(prog) = 1

\* (mutant) the thread is not waited for
Joined_NoWait(t) == TRUE

\* (mutant) join() never returns
Joined_Never(t) == FALSE

\* IO_thread.join() returns
Joined(t) == t = "finished"

LoadUnchanged ==
  UNCHANGED <<schedulingCode_, operation, newProgram, inProgram, programs_,
              argc, config, metaData, realClock>>

(* ---- time ---- *)

\* elapsed_seconds(): system_clock::now() - start_, with the steady time of the reading
Stamp(sc, st, t) == [elapsed |-> sc - st, at |-> t]

\* every line the step printed carries the elapsed time read when it was printed
Timestamps ==
  stamps' = stamps \o [i \in 1..(Len(log') - Len(log)) |->
                         Stamp(system_clock', start_', steady')]

\* a step that does not wait
Instant ==
  /\ UNCHANGED <<steady, system_clock, start_>>
  /\ Timestamps

\* (mutant) the cycles are slept, not the duration
SleepFor_Cycles(o) == o.cycles

\* the time sleep_for is asked to wait
SleepFor(o) == o.duration

\* what a sleep may take beyond the time asked for
Oversleeps == IF realClock THEN {0, 1} ELSE {0}

\* std::this_thread::sleep_for( d ): at least d passes; then the step prints
Sleep(d) ==
  /\ \E over \in Oversleeps :
       /\ steady' = steady + d + over
       /\ system_clock' = system_clock + d + over
  /\ UNCHANGED start_
  /\ Timestamps

(* ---- Simulator::run ---- *)

\* start_ is set, the start of the simulation and the preparation are announced
RunStart ==
  /\ pc = "run"
  /\ log' = print(print(log, "Simulator program starting", 0),
                  "OS: preparing all processes", 0)
  /\ it' = 1
  /\ pc' = IF schedulingCode_ = "FIFO" THEN "fifo_prepare" ELSE "srtf_prepare"
  /\ LoadUnchanged
  /\ UNCHANGED <<program, programCounter, SRTF_queue_, po_operation, programID,
                 IO_thread, consumed, dispatched, stateTrace>>
  /\ start_' = system_clock
  /\ UNCHANGED <<steady, system_clock>>
  /\ Timestamps

\* FIFO, first loop: for( Program program : programs_ ) program.state = READY
FifoPrepare ==
  /\ pc = "fifo_prepare"
  /\ IF it <= Len(programs_)
       THEN /\ program' = [FifoElement(programs_, it) EXCEPT !.state = "READY"]
            /\ stateTrace' = Append(stateTrace, Transition(FifoElement(programs_, it), "READY"))
            /\ it' = it + 1
            /\ UNCHANGED <<pc, programCounter>>
       ELSE /\ programCounter' = 0
            /\ it' = 1
            /\ pc' = "fifo_select"
            /\ UNCHANGED <<program, stateTrace>>
  /\ programs_' = IF it <= Len(programs_)
                    THEN LoopVariableWritten(programs_, it, program') ELSE programs_
  /\ ConstructedUnchanged
  /\ UNCHANGED <<SRTF_queue_, po_operation, programID, IO_thread, log, consumed, dispatched>>
  /\ Instant

\* FIFO, second loop head: select, count, copy, set id and RUNNING
FifoSelect ==
  /\ pc = "fifo_select"
  /\ IF it <= Len(programs_)
       THEN /\ log' = print(log, "OS: selecting next process", 0)
            /\ programCounter' = programCounter + 1
            /\ program' = [FifoElement(programs_, it) EXCEPT !.id = programCounter + 1,
                                                            !.state = "RUNNING"]
            /\ stateTrace' = Append(stateTrace, Transition(FifoElement(programs_, it), "RUNNING"))
            /\ dispatched' = Append(dispatched, FifoElement(programs_, it).adm)
            /\ pc' = "fifo_loop"
       ELSE /\ pc' = "run_end"
            /\ UNCHANGED <<log, programCounter, program, stateTrace, dispatched>>
  /\ programs_' = IF it <= Len(programs_)
                    THEN LoopVariableWritten(programs_, it, program') ELSE programs_
  /\ ConstructedUnchanged
  /\ UNCHANGED <<it, SRTF_queue_, po_operation, programID, IO_thread, consumed>>
  /\ Instant

\* FIFO: while( !program.done() ) process_operation( program ); then EXIT
FifoLoop ==
  /\ pc = "fifo_loop"
  /\ IF ~done(program)
       THEN /\ pc' = "po_begin"
            /\ UNCHANGED <<program, stateTrace, it>>
       ELSE /\ program' = [program EXCEPT !.state = "EXIT"]
            /\ stateTrace' = Append(stateTrace, Transition(program, "EXIT"))
            /\ it' = it + 1
            /\ pc' = "fifo_select"
  /\ LoadUnchanged
  /\ UNCHANGED <<programCounter, SRTF_queue_, po_operation, programID, IO_thread,
                 log, consumed, dispatched>>
  /\ Instant

\* SRTF, first loop: each copy is set READY and pushed into SRTF_queue_
SrtfPrepare ==
  /\ pc = "srtf_prepare"
  /\ IF it <= Len(programs_)
       THEN /\ program' = [FifoElement(programs_, it) EXCEPT !.state = "READY"]
            /\ stateTrace' = Append(stateTrace, Transition(FifoElement(programs_, it), "READY"))
            /\ SRTF_queue_' = QueuePush(SRTF_queue_, program')
            /\ it' = it + 1
            /\ UNCHANGED <<pc, programCounter>>
       ELSE /\ programCounter' = 0
            /\ pc' = "srtf_select"
            /\ UNCHANGED <<program, stateTrace, SRTF_queue_, it>>
  /\ programs_' = IF it <= Len(programs_)
                    THEN LoopVariableWritten(programs_, it, program') ELSE programs_
  /\ ConstructedUnchanged
  /\ UNCHANGED <<po_operation, programID, IO_thread, log, consumed, dispatched>>
  /\ Instant

\* SRTF loop head: select, top and pop, id on first dispatch, RUNNING
SrtfSelect ==
  /\ pc = "srtf_select"
  /\ IF SRTF_queue_ # <<>>
       THEN LET top == QueueTop(SRTF_queue_)
                first == FirstDispatch(top)
                counter == IF first THEN programCounter + 1 ELSE programCounter
                withId == IF first THEN [top EXCEPT !.id = counter] ELSE top
            IN  /\ log' = print(log, "OS: selecting next process", 0)
                /\ SRTF_queue_' = QueuePop(SRTF_queue_)
                /\ programCounter' = counter
                /\ program' = [withId EXCEPT !.state = "RUNNING"]
                /\ stateTrace' = Append(stateTrace, Transition(top, "RUNNING"))
                /\ dispatched' = IF first THEN Append(dispatched, top.adm) ELSE dispatched
                /\ pc' = "po_begin"
       ELSE /\ pc' = "run_end"
            /\ UNCHANGED <<log, SRTF_queue_, programCounter, program, stateTrace, dispatched>>
  /\ LoadUnchanged
  /\ UNCHANGED <<it, po_operation, programID, IO_thread, consumed>>
  /\ Instant

\* SRTF loop tail: EXIT when done, otherwise READY and pushed again
SrtfRequeue ==
  /\ pc = "srtf_after"
  /\ IF done(program)
       THEN /\ program' = [program EXCEPT !.state = "EXIT"]
            /\ stateTrace' = Append(stateTrace, Transition(program, "EXIT"))
            /\ UNCHANGED SRTF_queue_
       ELSE /\ program' = [program EXCEPT !.state = "READY"]
            /\ stateTrace' = Append(stateTrace, Transition(program, "READY"))
            /\ SRTF_queue_' = QueuePush(SRTF_queue_, program')
  /\ pc' = "srtf_select"
  /\ LoadUnchanged
  /\ UNCHANGED <<it, programCounter, po_operation, programID, IO_thread, log,
                 consumed, dispatched>>
  /\ Instant

\* print("Simulator program ending")
RunEnd ==
  /\ pc = "run_end"
  /\ log' = print(log, "Simulator program ending", 0)
  /\ pc' = "done"
  /\ LoadUnchanged
  /\ UNCHANGED <<it, program, programCounter, SRTF_queue_, po_operation, programID,
                 IO_thread, consumed, dispatched, stateTrace>>
  /\ Instant

(* ---- Simulator::process_operation ---- *)

Taken(prog) == [adm |-> prog.adm, op |-> next_operation(prog)]

\* programID and the first next(); after A(start) the announcement and a second next()
PoBegin ==
  /\ pc = "po_begin"
  /\ programID' = program.id
  /\ LET first == next_operation(program)
         rest == after_next(program)
     IN  IF first.type = "A" /\ first.description = "start"
           THEN /\ log' = print(log, "OS: starting process", program.id)
                /\ po_operation' = next_operation(rest)
                /\ program' = after_next(rest)
                /\ consumed' = consumed \o <<Taken(program), Taken(rest)>>
           ELSE /\ po_operation' = first
                /\ program' = rest
                /\ consumed' = Append(consumed, Taken(program))
                /\ UNCHANGED log
  /\ pc' = "po_exec"
  /\ LoadUnchanged
  /\ UNCHANGED <<it, programCounter, SRTF_queue_, IO_thread, dispatched, stateTrace>>
  /\ Instant

\* the branch on the operation type: P announces its start, I and O create
\* the I/O thread, anything else goes on to the end check
PoExec ==
  /\ pc = "po_exec"
  /\ IF po_operation.type = "P"
       THEN /\ log' = print(log, "Process: start processing action", programID)
            /\ pc' = "po_sleep"
            /\ UNCHANGED IO_thread
       ELSE IF po_operation.type \in {"I", "O"}
              THEN /\ IO_thread' = "start"
                   /\ pc' = "po_join"
                   /\ UNCHANGED log
              ELSE /\ pc' = "po_tail"
                   /\ UNCHANGED <<log, IO_thread>>
  /\ LoadUnchanged
  /\ UNCHANGED <<it, program, programCounter, SRTF_queue_, po_operation, programID,
                 consumed, dispatched, stateTrace>>
  /\ Instant

\* P: sleep_for( duration ), then the end of the processing action
PoSleep ==
  /\ pc = "po_sleep"
  /\ log' = print(log, "Process: end processing action", programID)
  /\ pc' = "po_tail"
  /\ LoadUnchanged
  /\ UNCHANGED <<it, program, programCounter, SRTF_queue_, po_operation, programID,
                 IO_thread, consumed, dispatched, stateTrace>>
  /\ Sleep(SleepFor(po_operation))

\* the I/O thread enters process_IO: the start line of its device, or
\* nothing at all when no branch matches the description
IoStart ==
  /\ IO_thread = "start"
  /\ IF HasIOBranch(po_operation)
       THEN /\ log' = print(log, StartMessage(po_operation), programID)
            /\ IO_thread' = "sleep"
       ELSE /\ IO_thread' = "finished"
            /\ UNCHANGED log
  /\ LoadUnchanged
  /\ UNCHANGED <<pc, it, program, programCounter, SRTF_queue_, po_operation, programID,
                 consumed, dispatched, stateTrace>>
  /\ Instant

\* the I/O thread: sleep_for( duration ), then the end line, then it returns
IoEnd ==
  /\ IO_thread = "sleep"
  /\ log' = print(log, EndMessage(po_operation), programID)
  /\ IO_thread' = "finished"
  /\ LoadUnchanged
  /\ UNCHANGED <<pc, it, program, programCounter, SRTF_queue_, po_operation, programID,
                 consumed, dispatched, stateTrace>>
  /\ Sleep(SleepFor(po_operation))

\* IO_thread.join()
PoJoin ==
  /\ pc = "po_join"
  /\ Joined(IO_thread)
  /\ IO_thread' = IF IO_thread = "finished" THEN "none" ELSE IO_thread
  /\ pc' = "po_tail"
  /\ LoadUnchanged
  /\ UNCHANGED <<it, program, programCounter, SRTF_queue_, po_operation, programID,
                 log, consumed, dispatched, stateTrace>>
  /\ Instant

\* the end check: with one operation left it is popped and the removal announced;
\* process_operation returns to the loop that called it
PoTail ==
  /\ pc = "po_tail"
  /\ IF OnlyEndRemains(program)
       THEN /\ program' = after_next(program)
            /\ consumed' = Append(consumed, Taken(program))
            /\ log' = print(log, "OS: removing process", programID)
       ELSE UNCHANGED <<program, consumed, log>>
  /\ pc' = IF schedulingCode_ = "FIFO" THEN "fifo_loop" ELSE "srtf_after"
  /\ LoadUnchanged
  /\ UNCHANGED <<it, programCounter, SRTF_queue_, po_operation, programID, IO_thread,
                 dispatched, stateTrace>>
  /\ Instant

(* ---- the host's clock ---- *)

\* std::chrono::system_clock is the wall clock: while the simulation runs the
\* host may set it back (here once, by one tick); the time that has passed
\* is not touched
ClockSetBack ==
  /\ realClock
  /\ pc \notin {"main", "usage_error", "load_config", "open_meta_data",
                 "load_meta_data", "aborted", "done"}
  /\ system_clock = steady
  /\ system_clock' = system_clock - 1
  /\ UNCHANGED <<pc, schedulingCode_, operation, newProgram, inProgram, programs_, it,
                 program, programCounter, SRTF_queue_, po_operation, programID,
                 IO_thread, log, consumed, dispatched, stateTrace,
                 argc, config, metaData, realClock, steady, start_, stamps>>

(* ---- specification ---- *)

\* the configuration file main's null path names: there is none
NoConfigFile ==
  [readable |-> FALSE, header |-> FALSE, version |-> FALSE,
   schedulingCode |-> "RR", endLine |-> FALSE]

NoMetaDataFile ==
  [readable |-> FALSE, preamble |-> FALSE, endFlag |-> FALSE, lastLine |-> FALSE]

\* the two entries: Sim01's main with its argc, or the Simulator constructor
\* with the files it is given
Entry ==
  \/ /\ pc = "main"
     /\ argc \in 1..MaxArgc
     /\ config = NoConfigFile
     /\ metaData = NoMetaDataFile
  \/ /\ pc = "load_config"
     /\ argc = 0
     /\ config \in ConfigFiles
     /\ metaData \in MetaDataFiles

InitState ==
  /\ Entry
  /\ schedulingCode_ = ""
  /\ operation = NoOperation
  /\ newProgram = DefaultProgram
  /\ inProgram = FALSE
  /\ programs_ = <<>>
  /\ it = 1
  /\ program = DefaultProgram
  /\ programCounter = 0
  /\ SRTF_queue_ = <<>>
  /\ po_operation = NoOperation
  /\ programID = 0
  /\ IO_thread = "none"
  /\ log = <<>>
  /\ consumed = <<>>
  /\ dispatched = <<>>
  /\ stateTrace = <<>>
  /\ steady = 0
  /\ system_clock = 0
  /\ start_ = 0
  /\ stamps = <<>>

\* sleeps take the time asked for and the clock is left alone
Init == InitState /\ realClock = FALSE

\* sleeps may overrun and the clock may be set back
InitClock == InitState /\ realClock = TRUE

Next ==
  \/ Main
  \/ LoadConfig
  \/ OpenMetaData
  \/ LoadStartToken
  \/ LoadInnerToken
  \/ LoadEndToken
  \/ LoadFinish
  \/ RunStart
  \/ FifoPrepare
  \/ FifoSelect
  \/ FifoLoop
  \/ SrtfPrepare
  \/ SrtfSelect
  \/ SrtfRequeue
  \/ RunEnd
  \/ PoBegin
  \/ PoExec
  \/ PoSleep
  \/ IoStart
  \/ IoEnd
  \/ PoJoin
  \/ PoTail

Spec == Init /\ [][Next]_vars

NextClock == Next \/ ClockSetBack

SpecClock == InitClock /\ [][NextClock]_vars

\* the threads are scheduled and the sleeps end: a step that can be taken is taken
SpecFair == Init /\ [][Next]_vars /\ WF_vars(Next)

(* ---- properties ---- *)

IsPrefix(a, b) == Len(a) <= Len(b) /\ a = SubSeq(b, 1, Len(a))

\* the operations Program::next returned for the program admitted k-th, in order
RECURSIVE ConsumedOf(_, _)
ConsumedOf(c, k) ==
  IF c = <<>> THEN <<>>
  ELSE IF Head(c).adm = k THEN <<Head(c).op>> \o ConsumedOf(Tail(c), k)
  ELSE ConsumedOf(Tail(c), k)

Running ==
  pc \notin {"main", "usage_error", "load_config", "open_meta_data",
             "load_meta_data", "aborted"}

IsFifo == schedulingCode_ = "FIFO"

\* C1: at every moment the operations taken from a program are a prefix of
\* the operations it was loaded with (nothing duplicated, nothing reordered),
\* and when run() has finished they are all of them (nothing lost), under
\* either discipline.
C1_OperationsConsumedOnceInOrder ==
  Running =>
    \A k \in 1..Len(programs_) :
      /\ IsPrefix(ConsumedOf(consumed, k), programs_[k].operations)
      /\ pc = "done" => ConsumedOf(consumed, k) = programs_[k].operations

\* a finished SRTF run of two programs, one of them reinserted at least once
C1_Witness ==
  /\ pc = "done"
  /\ ~IsFifo
  /\ Len(programs_) = 2
  /\ \E k \in 1..2 : Len(programs_[k].operations) >= 4
  /\ Len(consumed) >= 7

\* C2: under FIFO the k-th program dispatched is the k-th admitted and runs
\* with id k, and what is taken from the programs comes program after
\* program: an operation of a later program is taken only when the earlier
\* programs are drained, and between two log lines of one process there is
\* no line of anything else (stated on the line just before the later one,
\* which gives every line between the two by repetition).
C2_FifoAdmissionOrderRunToCompletion ==
  (Running /\ IsFifo) =>
    /\ \A k \in 1..Len(dispatched) : dispatched[k] = k
    /\ pc \in {"fifo_loop", "po_begin", "po_exec", "po_sleep", "po_join", "po_tail"} =>
         /\ program.adm = Len(dispatched)
         /\ program.id = program.adm
    /\ \A i \in 1..Len(consumed) : \A k \in 1..Len(programs_) :
         k < consumed[i].adm =>
           ConsumedOf(SubSeq(consumed, 1, i), k) = programs_[k].operations
    /\ \A i \in 1..Len(consumed) : \A j \in 1..Len(consumed) :
         i < j => consumed[i].adm <= consumed[j].adm
    /\ \A i \in 1..Len(log) : \A l \in 1..Len(log) :
         (i < l /\ log[i].id # 0 /\ log[i].id = log[l].id) => log[l - 1].id = log[i].id

\* a finished FIFO run of two programs or more, one with two operations or more
C2_Witness ==
  /\ pc = "done"
  /\ IsFifo
  /\ Len(programs_) >= 2
  /\ \E k \in 1..Len(programs_) : Len(programs_[k].operations) >= 4
  /\ Len(consumed) >= 7

\* the operation is one the timing rules name: P, A, S, or I/O on a device
\* of the configuration
Resolvable(o) ==
  \/ o.type \in {"P", "A", "S"}
  \/ o.type \in {"I", "O"} /\ o.description \in {"hard drive", "keyboard", "monitor", "printer"}

ValidProgram(prog) == \A i \in 1..Len(prog.operations) : Resolvable(prog.operations[i])

ValidBatch == \A k \in 1..Len(programs_) : ValidProgram(programs_[k])

\* C3: under SRTF-N and SJF the programs are first dispatched by ascending
\* running time, and programs of equal running time in admission order.
C3_SrtfFirstDispatchAscendingTiesByAdmission ==
  (Running /\ ~IsFifo /\ ValidBatch) =>
    \A i \in 1..Len(dispatched) : \A j \in 1..Len(dispatched) :
      i < j =>
        LET a == programs_[dispatched[i]]
            b == programs_[dispatched[j]]
        IN  \/ a.running_time < b.running_time
            \/ a.running_time = b.running_time /\ a.adm < b.adm

\* C4: under SRTF-N an operation of a program is taken only when every
\* program of smaller running time has had all its operations taken: the
\* shorter of two programs runs to its exit, reinsertions included, before
\* the longer one is dispatched for the first time.
C4_ShorterProgramExitsBeforeLongerStarts ==
  (Running /\ ~IsFifo) =>
    \A i \in 1..Len(consumed) : \A s \in 1..Len(programs_) :
      programs_[s].running_time < programs_[consumed[i].adm].running_time =>
        ConsumedOf(SubSeq(consumed, 1, i), s) = programs_[s].operations

\* two programs, the shorter admitted second and holding two P/I/O
\* operations (it is reinserted once), the run finished
C4_Witness ==
  /\ pc = "done"
  /\ ~IsFifo
  /\ ValidBatch
  /\ Len(programs_) = 2
  /\ programs_[2].running_time < programs_[1].running_time
  /\ Len(programs_[2].operations) = 4
  /\ dispatched = <<2, 1>>

LegalTransitions == {<<"START", "READY">>, <<"READY", "RUNNING">>, <<"RUNNING", "EXIT">>}

\* C5: every assignment to a program's state moves it one step along
\* Start, Ready, Running, Exit: never backwards, never over a state.
C5_StateStepsThroughStartReadyRunningExit ==
  \A i \in 1..Len(stateTrace) : <<stateTrace[i].from, stateTrace[i].to>> \in LegalTransitions

\* position of the program admitted k-th in the order of first dispatch (0: not yet)
IdOf(k) ==
  IF \E i \in 1..Len(dispatched) : dispatched[i] = k
    THEN CHOOSE i \in 1..Len(dispatched) : dispatched[i] = k
    ELSE 0

InProcessOperation == pc \in {"po_begin", "po_exec", "po_sleep", "po_join", "po_tail"}

\* C6: a program gets its id once, at its first dispatch: no program is
\* given an id twice, the ids are 1..N in order of first dispatch, every
\* copy of the program in the queue or in the scheduler's hands carries that
\* id (0 before the first dispatch), and process_operation logs under it.
C6_IdAssignedOnceAtFirstDispatch ==
  Running =>
    /\ \A i \in 1..Len(dispatched) : \A j \in 1..Len(dispatched) :
         i # j => dispatched[i] # dispatched[j]
    /\ pc \notin {"run", "fifo_prepare", "srtf_prepare"} => programCounter = Len(dispatched)
    /\ \A q \in 1..Len(SRTF_queue_) : SRTF_queue_[q].id = IdOf(SRTF_queue_[q].adm)
    /\ (InProcessOperation \/ pc \in {"fifo_loop", "srtf_after"}) =>
         /\ program.id # 0
         /\ program.id = IdOf(program.adm)
    /\ pc \in {"po_exec", "po_sleep", "po_join", "po_tail"} => programID = program.id
    /\ \A l \in 1..Len(log) : log[l].id \in 0..Len(dispatched)
    /\ pc = "done" => Len(dispatched) = Len(programs_)

\* under SRTF-N a program dispatched again after a reinsertion, as the
\* second program of the run
C6_Witness ==
  /\ ~IsFifo
  /\ pc = "po_exec"
  /\ program.id = 2
  /\ Len(ConsumedOf(consumed, program.adm)) >= 3
  /\ program.operations # <<>>

\* C7: a program of A(start) and A(end) alone has, when the run is over,
\* its "OS: starting process" line and after it its "OS: removing process"
\* line, under either discipline.
C7_EmptyProgramLogsStartAndRemoval ==
  pc = "done" =>
    \A k \in 1..Len(programs_) :
      Len(programs_[k].operations) = 2 =>
        \E i \in 1..Len(log) : \E j \in 1..Len(log) :
          /\ i < j
          /\ log[i] = Line("OS: starting process", IdOf(k))
          /\ log[j] = Line("OS: removing process", IdOf(k))

\* C8: an operation the timing rules do not name never gets into a program:
\* loading aborts on it, an I/O operation on an unknown device included.
C8_UnresolvableOperationAbortsLoading ==
  /\ ValidBatch
  /\ ValidProgram(newProgram)

\* the lines of the log that carry process id n
RECURSIVE LinesOf(_, _)
LinesOf(l, n) ==
  IF l = <<>> THEN <<>>
  ELSE IF Head(l).id = n THEN <<Head(l)>> \o LinesOf(Tail(l), n)
  ELSE LinesOf(Tail(l), n)

\* the wording the event log is to use for the start and the end of an operation
ExpectedWording(o) ==
  CASE o.type = "P" -> <<"Process: start processing action", "Process: end processing action">>
    [] o.type = "I" /\ o.description = "hard drive" ->
         <<"Process: start hard drive input", "Process: end hard drive input">>
    [] o.type = "O" /\ o.description = "hard drive" ->
         <<"Process: start hard drive output", "Process: end hard drive output">>
    [] o.type \in {"I", "O"} /\ o.description = "keyboard" ->
         <<"Process: start keyboard input", "Process: end keyboard input">>
    [] o.type \in {"I", "O"} /\ o.description = "monitor" ->
         <<"Process: start monitor output", "Process: end monitor output">>
    [] o.type \in {"I", "O"} /\ o.description = "printer" ->
         <<"Process: start printer output", "Process: end printer output">>

RECURSIVE ExpectedOperationLines(_, _)
ExpectedOperationLines(ops, n) ==
  IF ops = <<>> THEN <<>>
  ELSE <<Line(ExpectedWording(Head(ops))[1], n), Line(ExpectedWording(Head(ops))[2], n)>>
         \o ExpectedOperationLines(Tail(ops), n)

\* the P/I/O operations of a loaded program
InnerOperations(prog) == SubSeq(prog.operations, 2, Len(prog.operations) - 1)

ExpectedProgramLines(prog, n) ==
  <<Line("OS: starting process", n)>>
    \o ExpectedOperationLines(InnerOperations(prog), n)
    \o <<Line("OS: removing process", n)>>

\* the program of the scenario: A(start)0; P(run)3; I(hard drive)2; A(end)0
IsScenarioProgram(prog) ==
  /\ Len(prog.operations) = 4
  /\ prog.operations[2].type = "P"
  /\ prog.operations[3].type = "I" /\ prog.operations[3].description = "hard drive"

ScenarioMessages ==
  <<"OS: starting process", "Process: start processing action",
    "Process: end processing action", "Process: start hard drive input",
    "Process: end hard drive input", "OS: removing process">>

\* C9: under FIFO the lines logged for the k-th program, when it has a
\* P/I/O operation, are: starting process k, for each operation in program
\* order its start line and right after it its end line, removing process k;
\* during the run they are a prefix of that.  The scenario program gives
\* the six lines of the scenario.
C9_FifoProgramEventSequence ==
  (Running /\ IsFifo) =>
    \A k \in 1..Len(programs_) :
      (ValidProgram(programs_[k]) /\ Len(programs_[k].operations) >= 3) =>
        /\ IsPrefix(LinesOf(log, k), ExpectedProgramLines(programs_[k], k))
        /\ pc = "done" => LinesOf(log, k) = ExpectedProgramLines(programs_[k], k)
        /\ (pc = "done" /\ IsScenarioProgram(programs_[k])) =>
             LinesOf(log, k) = [i \in 1..6 |-> Line(ScenarioMessages[i], k)]

\* a finished FIFO run in which the scenario program was admitted second
C9_Witness ==
  /\ pc = "done"
  /\ IsFifo
  /\ Len(programs_) >= 2
  /\ IsScenarioProgram(programs_[2])
  /\ Len(LinesOf(log, 2)) = 6

IoStartMessages ==
  {"Process: start hard drive input", "Process: start hard drive output",
   "Process: start keyboard input", "Process: start monitor output",
   "Process: start printer output"}

IoEndOf(m) ==
  CASE m = "Process: start hard drive input" -> "Process: end hard drive input"
    [] m = "Process: start hard drive output" -> "Process: end hard drive output"
    [] m = "Process: start keyboard input" -> "Process: end keyboard input"
    [] m = "Process: start monitor output" -> "Process: end monitor output"
    [] m = "Process: start printer output" -> "Process: end printer output"

\* C10: while the I/O thread exists the driving flow is inside join() and
\* nowhere else, so it writes no line, dispatches nothing and creates no
\* second thread; and the start line of an I/O operation is followed
\* directly by its end line (or is the last line, the thread asleep).
C10_DrivingFlowWaitsForIoThread ==
  /\ IO_thread # "none" => pc = "po_join"
  /\ \A i \in 1..Len(log) :
       log[i].msg \in IoStartMessages =>
         IF i < Len(log)
           THEN log[i + 1] = Line(IoEndOf(log[i].msg), log[i].id)
           ELSE IO_thread = "sleep" /\ pc = "po_join"

\* the I/O thread of the second program's operation, asleep between its two lines
C10_Witness ==
  /\ IO_thread = "sleep"
  /\ pc = "po_join"
  /\ programID = 2
  /\ log[Len(log)].msg \in IoStartMessages

\* C11: the elapsed time written on consecutive log lines never decreases,
\* from "Simulator program starting" to the last line of the run.
C11_ElapsedTimeNeverDecreases ==
  \A i \in 1..(Len(stamps) - 1) : stamps[i].elapsed <= stamps[i + 1].elapsed

\* the lines of l that carry the message m
CountMsg(l, m) == Cardinality({i \in 1..Len(l) : l[i].msg = m})

\* C12: run() terminates (once entered it reaches its return), every
\* dispatch step has taken at least one operation by the time the next
\* program is selected, and on return the SRTF queue is empty and the log
\* begins with "Simulator program starting" and ends with "Simulator program
\* ending", which no other line carries.
C12_RunTerminatesBetweenStartingAndEnding ==
  /\ (pc = "run") ~> (pc = "done")
  /\ [](pc \in {"fifo_select", "srtf_select", "run_end", "done"}
          => CountMsg(log, "OS: selecting next process") <= Len(consumed))
  /\ [](pc = "done"
          => /\ SRTF_queue_ = <<>>
             /\ log[1].msg = "Simulator program starting"
             /\ log[Len(log)].msg = "Simulator program ending"
             /\ CountMsg(log, "Simulator program starting") = 1
             /\ CountMsg(log, "Simulator program ending") = 1)

\* run() has returned after a preemptive run in which a program was put
\* back into the queue
C12_Witness ==
  /\ pc = "done"
  /\ ~IsFifo
  /\ Len(programs_) >= 2
  /\ CountMsg(log, "OS: selecting next process") > Len(programs_)

\* the steps run() and the I/O thread can take in the current state
EnabledRunSteps ==
  (IF ENABLED RunStart THEN 1 ELSE 0) + (IF ENABLED FifoPrepare THEN 1 ELSE 0)
  + (IF ENABLED FifoSelect THEN 1 ELSE 0) + (IF ENABLED FifoLoop THEN 1 ELSE 0)
  + (IF ENABLED SrtfPrepare THEN 1 ELSE 0) + (IF ENABLED SrtfSelect THEN 1 ELSE 0)
  + (IF ENABLED SrtfRequeue THEN 1 ELSE 0) + (IF ENABLED RunEnd THEN 1 ELSE 0)
  + (IF ENABLED PoBegin THEN 1 ELSE 0) + (IF ENABLED PoExec THEN 1 ELSE 0)
  + (IF ENABLED PoSleep THEN 1 ELSE 0) + (IF ENABLED IoStart THEN 1 ELSE 0)
  + (IF ENABLED IoEnd THEN 1 ELSE 0) + (IF ENABLED PoJoin THEN 1 ELSE 0)
  + (IF ENABLED PoTail THEN 1 ELSE 0)

\* C13: two runs on the same configuration and batch write the same sequence
\* of messages.  Stated on one run: once loading is over, in every state
\* exactly one step can be taken until run() has returned (no step of run()
\* or of the I/O thread holds a choice that reaches log), so the log is a
\* function of the loaded configuration and batch, under FIFO and SRTF-N,
\* programs of equal runningTime included.
C13_RunLeavesNoChoice ==
  Running => EnabledRunSteps = (IF pc = "done" THEN 0 ELSE 1)

\* a preemptive run over two programs of equal runningTime, the I/O thread
\* of one of them running beside the flow that waits for it
C13_Witness ==
  /\ ~IsFifo
  /\ pc = "po_join"
  /\ IO_thread = "sleep"
  /\ \E i, j \in 1..Len(programs_) :
       i # j /\ programs_[i].running_time = programs_[j].running_time
             /\ programs_[i].running_time > 0

\* load_config accepts the configuration file
ConfigAccepted(c) ==
  /\ c.readable
  /\ c.header
  /\ c.version
  /\ c.schedulingCode \in {"FIFO", "SJF", "SRTF-N"}
  /\ c.endLine

\* load_meta_data accepts what surrounds the programs
MetaDataFramed(f) == f.readable /\ f.preamble /\ f.endFlag /\ f.lastLine

\* C14: a load-time error (configuration unreadable, wrong header, wrong
\* version, unknown scheduling code, missing End; meta-data unreadable or
\* malformed) ends the construction before anything is scheduled: with a bad
\* configuration no program is ever loaded, and whenever a line is in the
\* log, or run() has been entered, both files were accepted and loading had
\* not aborted.
C14_LoadErrorAbortsBeforeScheduling ==
  /\ ~ConfigAccepted(config) => programs_ = <<>> /\ ~Running
  /\ ~MetaDataFramed(metaData) => ~Running
  /\ pc = "aborted" => log = <<>> /\ SRTF_queue_ = <<>> /\ stateTrace = <<>>
  /\ log # <<>> => Running /\ ConfigAccepted(config) /\ MetaDataFramed(metaData)

\* loading has aborted on a configuration whose scheduling code is unknown:
\* the code was stored, nothing was loaded and nothing was logged
C14_Witness ==
  /\ pc = "aborted"
  /\ config.readable /\ config.header /\ config.version /\ config.endLine
  /\ schedulingCode_ = "RR"
  /\ metaData.readable /\ metaData.preamble /\ metaData.endFlag /\ metaData.lastLine

\* C15: main, given exactly one command-line argument (argc = 2), constructs
\* the simulator and runs it; it reports the wrong number of arguments only
\* when the argument is missing or extra ones are given.
C15_OneArgumentIsAccepted ==
  pc = "usage_error" => argc # 2

\* the P/I/O operations among the operations Program::next has returned
InnerTaken(c) == Cardinality({i \in 1..Len(c) : c[i].op.type # "A"})

\* the programs dispatched so far that hold no P/I/O operation
EmptyDispatched ==
  Cardinality({i \in 1..Len(dispatched) : Len(programs_[dispatched[i]].operations) = 2})

\* the copies of the program admitted k-th that are in the queue
CopiesInQueue(k) == Cardinality({i \in 1..Len(SRTF_queue_) : SRTF_queue_[i].adm = k})

\* after a dispatch step the program is in Exit and out of the queue exactly
\* when it has no operation left, otherwise Ready and in the queue once
RequeuedOrExited ==
  program.adm # 0 =>
    /\ done(program) <=> program.state = "EXIT"
    /\ done(program) <=> CopiesInQueue(program.adm) = 0
    /\ ~done(program) <=> (program.state = "READY" /\ CopiesInQueue(program.adm) = 1)

\* a dispatch step of the preemptive discipline has just ended
AfterSrtfStep == ~IsFifo /\ pc = "srtf_select" /\ programCounter > 0

\* C16 as claimed: every dispatch step of SRTF-N is announced by one
\* "OS: selecting next process" and executes exactly one P/I/O operation
\* (as many selections as operations executed), and leaves the program
\* either in Exit and out of the queue or Ready and in the queue once.
C16_EachStepExecutesOneOperation ==
  AfterSrtfStep =>
    /\ CountMsg(log, "OS: selecting next process") = InnerTaken(consumed)
    /\ RequeuedOrExited

\* C16 (amended): a program without P/I/O operations takes one dispatch step
\* that executes none; every other step executes exactly one.
C16_EachStepExecutesOneOperationUnlessEmpty ==
  AfterSrtfStep =>
    /\ CountMsg(log, "OS: selecting next process") = InnerTaken(consumed) + EmptyDispatched
    /\ RequeuedOrExited

\* a program of two operations has been dispatched, put back Ready, and
\* dispatched again to its Exit, beside a program that holds no operation
C16_Witness ==
  /\ AfterSrtfStep
  /\ done(program)
  /\ Len(programs_[program.adm].operations) = 4
  /\ EmptyDispatched > 0

\* the positions of the lines of l that carry the id k
PositionsOf(l, k) == {i \in 1..Len(l) : l[i].id = k}

\* the program with id k has been announced as removed once, by the last of its lines
RemovedLast(k) ==
  /\ Cardinality({i \in PositionsOf(log, k) : log[i].msg = "OS: removing process"}) = 1
  /\ \A i \in PositionsOf(log, k) :
       log[i].msg = "OS: removing process" => \A j \in PositionsOf(log, k) : j <= i

\* C17: A(start) and A(end) take no time: the line "OS: starting process k"
\* carries the time of the selection before it and "OS: removing process k"
\* the time of the line before it; when run() has returned every program
\* has been announced as removed exactly once, after every other line of
\* the program; and A(start) is taken in the same call as the operation
\* after it.
C17_EndIsUntimedAndRemovalAnnouncedOnce ==
  /\ \A i \in 2..Len(log) :
       log[i].msg \in {"OS: starting process", "OS: removing process"}
         => stamps[i].at = stamps[i - 1].at
  /\ \A i \in 1..(Len(consumed) - 1) :
       (consumed[i].op.type = "A" /\ consumed[i].op.description = "start")
         => consumed[i + 1].adm = consumed[i].adm
  /\ pc = "done" => \A k \in 1..Len(programs_) : RemovedLast(k)

\* the cycle time the configuration gives an operation of this kind and device
ConfiguredCycleTime(o) ==
  CASE o.type = "P" -> processorCycleTime_
    [] o.type \in {"I", "O"} /\ o.description = "hard drive" -> hardDriveCycleTime_
    [] o.type \in {"I", "O"} /\ o.description = "keyboard" -> keyboardCycleTime_
    [] o.type \in {"I", "O"} /\ o.description = "monitor" -> monitorDisplayTime_
    [] o.type \in {"I", "O"} /\ o.description = "printer" -> printerCycleTime_
    [] OTHER -> 0

\* a P/I/O operation that has a start and an end event
Eventful(o) == o.type # "A" /\ Resolvable(o)

EventfulOps(prog) == SelectSeq(prog.operations, Eventful)

StartMessages == IoStartMessages \cup {"Process: start processing action"}

\* line i starts an operation: the operation it starts is, among the
\* operations of its program that have events, the one at the rank line i
\* has among the start lines of its process
OperationOf(i) ==
  LET rank == Cardinality({j \in 1..i : log[j].id = log[i].id /\ log[j].msg \in StartMessages})
  IN  EventfulOps(programs_[dispatched[log[i].id]])[rank]

RECURSIVE SumOfDurations(_)
SumOfDurations(ops) ==
  IF ops = <<>> THEN 0 ELSE Head(ops).duration + SumOfDurations(Tail(ops))

\* an element of programs_ as load_meta_data pushed it back
AsLoaded(prog) ==
  /\ prog.state = "START"
  /\ prog.id = 0
  /\ Len(prog.operations) >= 2
  /\ prog.operations[1].type = "A" /\ prog.operations[1].description = "start"
  /\ prog.operations[Len(prog.operations)].type = "A"
  /\ prog.operations[Len(prog.operations)].description = "end"
  /\ prog.running_time = SumOfDurations(prog.operations)

\* the copies the scheduler works on carry the runningTime of their original
CopiesKeepRunningTime ==
  /\ \A i \in 1..Len(SRTF_queue_) :
       SRTF_queue_[i].running_time = programs_[SRTF_queue_[i].adm].running_time
  /\ program.adm # 0 => program.running_time = programs_[program.adm].running_time

\* C19: run() does not write to programs_: from its entry on no step changes
\* programs_, every element keeps its whole operation sequence, its
\* runningTime, state Start and id 0, and the copies in the queue and in the
\* scheduler's hands keep the runningTime they were loaded with, across
\* reinsertions too.
C19_RunLeavesProgramsUnchanged ==
  /\ [][Running => programs_' = programs_]_vars
  /\ [](Running => (\A k \in 1..Len(programs_) : AsLoaded(programs_[k]))
                     /\ CopiesKeepRunningTime)

\* run() has returned: two programs that take time were dispatched, given
\* their ids and emptied, one of them put back into the queue on the way
C19_Witness ==
  /\ pc = "done"
  /\ ~IsFifo
  /\ Len(programs_) = 2
  /\ programs_[1].running_time > 0
  /\ Len(programs_[2].operations) = 4
  /\ Len(dispatched) = 2

\* the front of the program's operation queue is A(start)
StartsNow(prog) ==
  next_operation(prog).type = "A" /\ next_operation(prog).description = "start"

\* C20: Program::next is never called on an empty operation queue:
\* process_operation is entered with at least one operation left, with at
\* least two when the first is A(start) (the second call), the call after
\* the end check finds an operation, and no program in the SRTF queue has
\* an empty operation queue.
C20_NextNeverOnEmptyQueue ==
  /\ pc = "po_begin" =>
       /\ ~done(program)
       /\ StartsNow(program) => remaining_operations(program) >= 2
  /\ (pc = "po_tail" /\ OnlyEndRemains(program)) => ~done(program)
  /\ \A i \in 1..Len(SRTF_queue_) : ~done(SRTF_queue_[i])

\* the third call of one process_operation is due: A(start) and the only
\* P/I/O operation of the program were taken, A(end) is left, other
\* programs wait in the queue
C20_Witness ==
  /\ pc = "po_tail"
  /\ OnlyEndRemains(program)
  /\ Len(programs_[program.adm].operations) = 3
  /\ SRTF_queue_ # <<>>

====
